---- MODULE Spec2Model ----
(***************************************************************************)
(* Agentic task management: the chat server (tools, LangGraph agent loop,  *)
(* WebSocket connection manager and endpoint) as listed in                 *)
(* src/client/README.md, and the Next.js client under src/.                *)
(***************************************************************************)
EXTENDS Integers, Sequences, FiniteSets, TLC

(* ------------------------------ bounds -------------------------------- *)

\* Number of WebSocket connections (sessions) the server sees.
NumSessions == 2

\* Supersteps graph.ainvoke may run before the graph runtime raises
\* (LangGraph's recursion limit; the listing configures none of its own).
RecursionLimit == 3

\* Cap on the primary-key sequence of the tasks table.
MaxTasks == 2

\* Tool calls the model issues in one response in the turn runs.
MaxCalls == 2

\* Transactions the database clock runs through (one instant each).
MaxClock == 3

\* Connections in the runs of the connection manager with clients that
\* only listen.
MaxSockets == 3

Sessions == 1..NumSessions

None == "None"

(* --------------------------- tasks table ------------------------------ *)

\* app/models/task.py: TaskStatus and TaskPriority enum values.
TaskStatus == {"todo", "in_progress", "completed", "archived"}

TaskPriority == {"low", "medium", "high"}

\* str.lower() on the argument strings the model passes.
lower(s) ==
    CASE s = "HIGH" -> "high"
      [] s = "Low" -> "low"
      [] s = "COMPLETED" -> "completed"
      [] s = "Todo" -> "todo"
      [] OTHER -> s

\* datetime.fromisoformat: the ISO strings parse, anything else raises.
IsoDates == {"2025-09-22"}

\* Python truthiness of an optional string argument (None and "" are falsy).
truthy(v) == v # None /\ v # ""

\* Task(...) as inserted: column defaults fill status and both timestamps.
Task(id, title, description, priority, due_date, t) ==
    [id |-> id, title |-> title, description |-> description,
     status |-> "todo", priority |-> priority, due_date |-> due_date,
     created_at |-> t, updated_at |-> t]

\* The database seen by one tool call: rows by id, the id sequence, now()
\* of the call's transaction, and the order in which a query returns rows
\* whose sort keys are equal (a sequence of ids, the database's choice).
Db(rows, seq, t, tie) == [tasks |-> rows, nextId |-> seq, now |-> t, tie |-> tie]

\* A tool call's outcome: the database afterwards and the returned string.
Ret(db, out) == [db |-> db, out |-> out]

\* A create_task that numbers the new row one past the highest id in the
\* table (a rowid instead of a sequence).
create_commit_rowid(db, a) ==
    IF lower(a.priority) \notin TaskPriority
        THEN [db |-> db, phase |-> "done", id |-> 0, dirty |-> << >>,
              out |-> <<"Error creating task", a.priority>>]
    ELSE IF truthy(a.due_date) /\ a.due_date \notin IsoDates
        THEN [db |-> db, phase |-> "done", id |-> 0, dirty |-> << >>,
              out |-> <<"Error creating task", a.due_date>>]
    ELSE LET id == IF DOMAIN db.tasks = {} THEN 1
                   ELSE 1 + CHOOSE m \in DOMAIN db.tasks :
                                \A j \in DOMAIN db.tasks : m >= j
             row == Task(id, a.title, a.description, lower(a.priority),
                         IF truthy(a.due_date) THEN a.due_date ELSE None,
                         db.now)
         IN [db |-> [db EXCEPT !.tasks = [i \in DOMAIN db.tasks \cup {id} |->
                                            IF i = id THEN row ELSE db.tasks[i]],
                               !.nextId = id + 1],
             phase |-> "committed", id |-> id, dirty |-> << >>, out |-> << >>]

\* create_task up to and through "await db.commit()": enum coercion and
\* date parsing come first and raise inside the try before the database is
\* reached; else the INSERT takes the next id of the sequence and commits,
\* and the call is suspended with its refresh still to come.
create_commit(db, a) ==
    IF lower(a.priority) \notin TaskPriority
        THEN [db |-> db, phase |-> "done", id |-> 0, dirty |-> << >>,
              out |-> <<"Error creating task", a.priority>>]
    ELSE IF truthy(a.due_date) /\ a.due_date \notin IsoDates
        THEN [db |-> db, phase |-> "done", id |-> 0, dirty |-> << >>,
              out |-> <<"Error creating task", a.due_date>>]
    ELSE LET id == db.nextId
             row == Task(id, a.title, a.description, lower(a.priority),
                         IF truthy(a.due_date) THEN a.due_date ELSE None,
                         db.now)
         IN [db |-> [db EXCEPT !.tasks = [i \in DOMAIN db.tasks \cup {id} |->
                                            IF i = id THEN row ELSE db.tasks[i]],
                               !.nextId = id + 1],
             phase |-> "committed", id |-> id, dirty |-> << >>, out |-> << >>]

\* "await db.refresh(task)" and the return of create_task: the SELECT of
\* the committed row by its id raises (InvalidRequestError: Could not
\* refresh instance, returned as "Error creating task") when the row has
\* been deleted since the commit.
create_refresh(db, a, id) ==
    IF id \in DOMAIN db.tasks
        THEN Ret(db, <<"created successfully", id>>)
        ELSE Ret(db, <<"Error creating task", "Could not refresh instance">>)

\* "if value: task.field = value": an argument that is None or empty
\* leaves the field; status and priority are converted to their enum.
assign(row, field, v) ==
    IF truthy(v)
        THEN [row EXCEPT ![field] = IF field \in {"status", "priority"} THEN lower(v)
                                                                        ELSE v]
        ELSE row

\* The commit writes updated_at (onupdate) only when a column really
\* changed.
stamped(row, new, t) == IF new = row THEN row ELSE [new EXCEPT !.updated_at = t]

\* The assignments of update_task, in order, and the row they leave.
applyUpdate(row, a, t) ==
    stamped(row,
            assign(assign(assign(assign(row, "title", a.title),
                                 "description", a.description),
                          "status", a.status),
                   "priority", a.priority),
            t)

\* The columns in which new differs from the row the select loaded.
changed(row, new) ==
    [c \in {c \in {"title", "description", "status", "priority"} : new[c] # row[c]}
        |-> new[c]]

\* The columns update_task has assigned with a value other than the one the
\* select loaded: what the flush at commit writes.
dirty(row, a) == changed(row, applyUpdate(row, a, row.updated_at))

\* An update_task that commits, on an enum ValueError, the fields it had
\* already assigned: the store a per-field commit would leave.
update_select_partial(db, a) ==
    IF a.task_id \notin DOMAIN db.tasks
        THEN [db |-> db, phase |-> "done", id |-> 0,
              out |-> <<"not found", a.task_id>>, dirty |-> << >>]
    ELSE IF truthy(a.status) /\ lower(a.status) \notin TaskStatus
        THEN [db |-> [db EXCEPT !.tasks[a.task_id] =
                         applyUpdate(@, [a EXCEPT !.status = None, !.priority = None],
                                     db.now)],
              phase |-> "done", id |-> 0,
              out |-> <<"Error updating task", a.status>>, dirty |-> << >>]
    ELSE IF truthy(a.priority) /\ lower(a.priority) \notin TaskPriority
        THEN [db |-> [db EXCEPT !.tasks[a.task_id] =
                         applyUpdate(@, [a EXCEPT !.priority = None], db.now)],
              phase |-> "done", id |-> 0,
              out |-> <<"Error updating task", a.priority>>, dirty |-> << >>]
    ELSE [db |-> db, phase |-> "selected", id |-> 0, out |-> << >>,
          dirty |-> dirty(db.tasks[a.task_id], a)]

\* update_task up to its commit: "await db.execute(select...)" with the
\* row missing, an enum ValueError in the assignments that follow (the
\* session closes without a commit, the store is as it was), or the
\* assignments made and the commit pending.
update_select(db, a) ==
    IF a.task_id \notin DOMAIN db.tasks
        THEN [db |-> db, phase |-> "done", id |-> 0,
              out |-> <<"not found", a.task_id>>, dirty |-> << >>]
    ELSE IF truthy(a.status) /\ lower(a.status) \notin TaskStatus
        THEN [db |-> db, phase |-> "done", id |-> 0,
              out |-> <<"Error updating task", a.status>>, dirty |-> << >>]
    ELSE IF truthy(a.priority) /\ lower(a.priority) \notin TaskPriority
        THEN [db |-> db, phase |-> "done", id |-> 0,
              out |-> <<"Error updating task", a.priority>>, dirty |-> << >>]
    ELSE [db |-> db, phase |-> "selected", id |-> 0, out |-> << >>,
          dirty |-> dirty(db.tasks[a.task_id], a)]

\* "await db.commit()" of update_task: nothing to write when no column
\* changed; else UPDATE ... WHERE id = task_id of the changed columns and
\* updated_at, which raises (StaleDataError: 0 rows matched, returned as
\* "Error updating task") when the row has been deleted since the select.
update_commit(db, a, d) ==
    IF DOMAIN d = {}
        THEN Ret(db, <<"updated successfully", a.task_id>>)
    ELSE IF a.task_id \notin DOMAIN db.tasks
        THEN Ret(db, <<"Error updating task", "0 were matched">>)
    ELSE Ret([db EXCEPT !.tasks[a.task_id] =
                  [c \in DOMAIN @ |-> IF c \in DOMAIN d THEN d[c]
                                      ELSE IF c = "updated_at" THEN db.now
                                      ELSE @[c]]],
             <<"updated successfully", a.task_id>>)

\* delete_task up to "await db.delete(task)".
delete_select(db, a) ==
    IF a.task_id \notin DOMAIN db.tasks
        THEN [db |-> db, phase |-> "done", id |-> 0,
              out |-> <<"not found", a.task_id>>, dirty |-> << >>]
        ELSE [db |-> db, phase |-> "selected", id |-> 0, out |-> << >>,
              dirty |-> << >>]

\* "await db.commit()" of delete_task: DELETE ... WHERE id = task_id; a row
\* already gone is no error.
delete_commit(db, a) ==
    Ret([db EXCEPT !.tasks = [i \in DOMAIN db.tasks \ {a.task_id} |-> db.tasks[i]]],
        <<"deleted successfully", a.task_id>>)

\* One line of a listing: "ID: .., Title: .., Status: .., Priority: .." and,
\* in list_tasks, ", Due: .." when the row has a due date.
Line(row, withDue) ==
    [id |-> row.id, title |-> row.title, status |-> row.status,
     priority |-> row.priority,
     due |-> IF withDue THEN row.due_date ELSE None]

\* The place of id k among rows with equal sort keys: its position in tie,
\* after them by id when tie does not name it.
rank(tie, k) ==
    IF \E n \in 1..Len(tie) : tie[n] = k
        THEN CHOOSE n \in 1..Len(tie) : tie[n] = k
        ELSE Len(tie) + k

\* A query ordered by created_at ascending.
RECURSIVE order_by_created_asc(_, _, _)
order_by_created_asc(rows, ids, tie) ==
    IF ids = {} THEN << >>
    ELSE LET i == CHOOSE k \in ids :
                      \A j \in ids :
                          \/ rows[k].created_at < rows[j].created_at
                          \/ /\ rows[k].created_at = rows[j].created_at
                             /\ rank(tie, k) =< rank(tie, j)
         IN <<i>> \o order_by_created_asc(rows, ids \ {i}, tie)

\* query.order_by(Task.created_at.desc()): the selected ids, latest first;
\* the database leaves the order of equal timestamps open (tie).
RECURSIVE order_by_created_desc(_, _, _)
order_by_created_desc(rows, ids, tie) ==
    IF ids = {} THEN << >>
    ELSE LET i == CHOOSE k \in ids :
                      \A j \in ids :
                          \/ rows[k].created_at > rows[j].created_at
                          \/ /\ rows[k].created_at = rows[j].created_at
                             /\ rank(tie, k) =< rank(tie, j)
         IN <<i>> \o order_by_created_desc(rows, ids \ {i}, tie)

\* The orders the database may pick for the rows of a query.
Ties(ids) ==
    {o \in [1..Cardinality(ids) -> ids] :
        \A m, n \in 1..Cardinality(ids) : o[m] = o[n] => m = n}

\* One line per row, in the order o of their ids.
Lined(db, o, withDue) == [k \in 1..Len(o) |-> Line(db.tasks[o[k]], withDue)]

\* The lines of a listing, in query order.
Lines(db, ids, withDue) ==
    Lined(db, order_by_created_desc(db.tasks, ids, db.tie), withDue)

\* The ids selected by a query with optional priority and status filters.
selectIds(db, priority, status) ==
    {i \in DOMAIN db.tasks :
        /\ (truthy(priority) => db.tasks[i].priority = lower(priority))
        /\ (truthy(status) => db.tasks[i].status = lower(status))}

\* list_tasks: read only; an unknown status raises inside the try.
list_tasks(db, a) ==
    IF truthy(a.status) /\ lower(a.status) \notin TaskStatus
        THEN Ret(db, <<"Error listing tasks", a.status>>)
    ELSE LET ids == selectIds(db, None, a.status)
         IN Ret(db, IF ids = {} THEN <<"No tasks found">>
                                ELSE <<"Tasks:", Lines(db, ids, TRUE)>>)

\* filter_tasks: read only.
filter_tasks(db, a) ==
    IF truthy(a.priority) /\ lower(a.priority) \notin TaskPriority
        THEN Ret(db, <<"Error filtering tasks", a.priority>>)
    ELSE IF truthy(a.status) /\ lower(a.status) \notin TaskStatus
        THEN Ret(db, <<"Error filtering tasks", a.status>>)
    ELSE LET ids == selectIds(db, a.priority, a.status)
         IN Ret(db, IF ids = {} THEN <<"No tasks found with specified filters">>
                                ELSE <<"Filtered tasks:", Lines(db, ids, FALSE)>>)

\* The call reaches the database: create_task, list_tasks and
\* filter_tasks convert their enum and date arguments first and raise
\* before any statement; update_task and delete_task begin with their
\* select.
opens(call) ==
    LET a == call.args
    IN CASE call.name = "create_task" ->
                /\ lower(a.priority) \in TaskPriority
                /\ truthy(a.due_date) => a.due_date \in IsoDates
         [] call.name = "list_tasks" ->
                truthy(a.status) => lower(a.status) \in TaskStatus
         [] call.name = "filter_tasks" ->
                /\ truthy(a.priority) => lower(a.priority) \in TaskPriority
                /\ truthy(a.status) => lower(a.status) \in TaskStatus
         [] OTHER -> TRUE

\* A tool call ToolNode has started as a task of asyncio.gather: where it
\* stands (start: not run yet; selected: update_task or delete_task
\* suspended before its commit; committed: create_task suspended before its
\* refresh; done), the now() of its transaction, what its commit will
\* write, the id its commit inserted, its result, and its place among the
\* calls of the node in order of finishing.
Started(call) ==
    [call |-> call, phase |-> "start", t |-> 0, dirty |-> << >>, id |-> 0,
     out |-> << >>, fin |-> 0]

\* A call as the part of it that has just run (s) leaves it: the store, and
\* the call with where it stands, the now() of its transaction (t), what
\* its commit will write, the id its commit inserted and its result.
entered(st, s, t) ==
    [db |-> s.db,
     st |-> [st EXCEPT !.phase = s.phase, !.t = t, !.dirty = s.dirty, !.id = s.id,
                       !.out = s.out]]

\* A tool of one statement has returned r.
returned(r) == [db |-> r.db, phase |-> "done", id |-> 0, dirty |-> << >>, out |-> r.out]

\* tools = [create_task, update_task, delete_task, list_tasks,
\* filter_tasks], looked up by name. The call runs from its start to its
\* first await that reaches the database and through it: update_task and
\* delete_task stop before their commit, create_task before its refresh;
\* list_tasks and filter_tasks have one statement and finish, as does a
\* call that raises before it.
begin(db, st) ==
    entered(st,
            CASE st.call.name = "update_task" -> update_select(db, st.call.args)
              [] st.call.name = "delete_task" -> delete_select(db, st.call.args)
              [] st.call.name = "create_task" -> create_commit(db, st.call.args)
              [] st.call.name = "list_tasks" -> returned(list_tasks(db, st.call.args))
              [] st.call.name = "filter_tasks" ->
                    returned(filter_tasks(db, st.call.args)),
            db.now)

\* A call in flight has returned r.
left(st, r) == [db |-> r.db, st |-> [st EXCEPT !.phase = "done", !.out = r.out]]

\* The last await of a suspended call and its return: the commit of
\* update_task and delete_task, the refresh of create_task.
finish(db, st) ==
    left(st,
         CASE st.call.name = "update_task" ->
                  update_commit(db, st.call.args, st.dirty)
           [] st.call.name = "delete_task" -> delete_commit(db, st.call.args)
           [] st.call.name = "create_task" ->
                  create_refresh(db, st.call.args, st.id))

\* One await of the call released.
advance(db, st) == IF st.phase = "start" THEN begin(db, st) ELSE finish(db, st)

(* ------------------------------ state --------------------------------- *)

VARIABLES
    tasks,               \* tasks table: id -> row
    nextId,              \* primary-key sequence
    now,                 \* database clock
    active_connections,  \* ConnectionManager.active_connections
    alive,               \* per session: the client's socket is still open
    pc,                  \* per session: where its websocket_endpoint stands
    step,                \* per session: supersteps run by the current ainvoke
    messages,            \* per session: the graph's message list of the current turn
    exc,                 \* per session: the exception the current turn raised
    bc,                  \* per session: the running broadcast loop
    sent,                \* per session: frames the current turn handed to send_text
    turn,                \* per session: what the finished graph run dispatched
    after,               \* per session: where the handler goes once the turn is over
    inbox,               \* per session: frames that arrived and receive_text has not returned yet
    client,              \* per session: the page (HomePage) in the browser at the other end
    running              \* per session: the tool calls of the tool node that is running

vars == <<tasks, nextId, now, active_connections, alive, pc, step, messages,
          exc, bc, sent, turn, after, inbox, client, running>>

dbVars == <<tasks, nextId, now>>

\* The database as the tools see it.
database == Db(tasks, nextId, now, << >>)

\* The tool messages of a message list, summarised when the graph run ends:
\* was a mutating tool dispatched, did one report success, did a dispatch
\* fail, did one report a missing id; and the content of the last message.
IsTool(m) == m[1] = "tool"

MutatingTools == {"create_task", "update_task", "delete_task"}

Successes == {"created successfully", "updated successfully", "deleted successfully"}

Failures == {"not found", "Error creating task", "Error updating task",
             "Error listing tasks", "Error filtering tasks"}

Summary(msgs) ==
    LET T == {i \in 1..Len(msgs) : IsTool(msgs[i])}
    IN [dispatched |-> T # {},
        mutating |-> \E i \in T : msgs[i][2].name \in MutatingTools,
        mutated |-> \E i \in T : msgs[i][3][1] \in Successes,
        failed |-> \E i \in T : msgs[i][3][1] \in Failures,
        notfound |-> \E i \in T : msgs[i][3][1] = "not found",
        content |-> IF msgs = << >> THEN "" ELSE msgs[Len(msgs)][2]]

NoTurn == Summary(<< >>)

\* The socket's receive queue: the frames waiting (by their number in
\* arrival order), how many arrived so far, and the text of each waiting
\* frame ("json" for the text of a JSON object).
NoFrames == [q |-> << >>, n |-> 0, text |-> << >>]

\* useState<Task[]>([]): the page's task list; defined is FALSE once
\* setTasks was given undefined.
NoTasks == [defined |-> TRUE, list |-> << >>]

\* HomePage (with the TaskItem it renders) before its effect has run: the
\* useState initial values, no socket yet; mounted until the page is left
\* or taken down; out are the frames given to
\* ws.send, down the frames the socket holds and has not yet handed to
\* onmessage; first, initials, last and recv record what onmessage was
\* handed (the type of the first frame, the initial_tasks frames so far,
\* the last task_update frame, the frames so far).
NewPage(variant, item) ==
    [variant |-> variant, item |-> item, mounted |-> TRUE, readyState |-> "none",
     isConnected |-> FALSE, messages |-> << >>, tasks |-> NoTasks, out |-> << >>,
     down |-> << >>, first |-> "none", initials |-> 0, last |-> << >>, recv |-> 0,
     edited |-> FALSE, replaced |-> FALSE]

\* No broadcast loop running.
NoBroadcast == [started |-> FALSE, size |-> 0, start |-> {}, visited |-> {},
                disconnected |-> {}]

ServerInit ==
    /\ tasks = << >>
    /\ nextId = 1
    /\ now = 0
    /\ active_connections = {}
    /\ alive = [s \in Sessions |-> FALSE]
    /\ pc = [s \in Sessions |-> "idle"]
    /\ step = [s \in Sessions |-> 0]
    /\ messages = [s \in Sessions |-> << >>]
    /\ exc = [s \in Sessions |-> "none"]
    /\ bc = [s \in Sessions |-> NoBroadcast]
    /\ sent = [s \in Sessions |-> << >>]
    /\ turn = [s \in Sessions |-> NoTurn]
    /\ after = [s \in Sessions |-> "none"]
    /\ inbox = [s \in Sessions |-> NoFrames]
    /\ running = [s \in Sessions |-> << >>]

\* The server as constructed, and a page (app/page.tsx) loaded in every
\* browser.
Init ==
    /\ ServerInit
    /\ client = [s \in Sessions |-> NewPage("page.tsx", "TaskItem.tsx")]

(* ------------------------ connection manager -------------------------- *)

\* ConnectionManager.connect: accept, then add to the set.
connect(conns, ws) == conns \cup {ws}

\* A disconnect that leaves the connection in the set.
disconnect_keep(conns, ws) == conns

\* ConnectionManager.disconnect: set.discard.
disconnect(conns, ws) == conns \ {ws}

\* websocket.send_text: delivered while the client's socket is open, raises
\* once it is gone.
delivers(ws) == alive[ws]

\* The JSON object of a frame: a type and a message; the task_update
\* message is a fixed text (the texts of replies and errors are not kept).
Body(type) ==
    [type |-> type,
     message |-> IF type = "task_update" THEN "Tasks may have been updated"
                                         ELSE "text"]

\* One frame handed to send_text.
Frame(type, to) ==
    [type |-> type, to |-> to, ok |-> delivers(to), body |-> Body(type)]

\* ConnectionManager.send_personal_message: a bare await of send_text; a
\* failure raises into the caller.
send_personal_message(ws) == IF delivers(ws) THEN "sent" ELSE "raised"

(* ----------------------------- the agent ------------------------------ *)

\* A tool call as the model issues it.
Call(name, args) == [name |-> name, args |-> args]

CreateArgs(title, priority) ==
    [title |-> title, description |-> "", priority |-> priority, due_date |-> None]

UpdateArgs(id, title, status, priority) ==
    [task_id |-> id, title |-> title, description |-> None, status |-> status,
     priority |-> priority]

\* The tool calls the model issues in the server runs.
ToolCalls ==
    { Call("create_task", CreateArgs("a", "medium")),
      Call("create_task", CreateArgs("a", "urgent")),
      Call("update_task", UpdateArgs(1, None, "COMPLETED", None)),
      Call("delete_task", [task_id |-> 1]),
      Call("list_tasks", [status |-> None]),
      Call("filter_tasks", [priority |-> "HIGH", status |-> None]) }

\* What llm_with_tools.invoke returns: final text, or tool calls.
AIText == <<"ai", "reply", << >> >>

AICalls(calls) == <<"ai", "", calls>>

ModelResponses == {AIText} \cup {AICalls(<<c>>) : c \in ToolCalls}

\* should_continue: "tools" when the last message carries tool calls, else END.
should_continue(msgs) ==
    IF msgs[Len(msgs)][3] # << >> THEN "tools" ELSE "END"

\* A tool node that appends the results as the calls finish.
tool_node_as_completed(run) ==
    [k \in 1..Len(run) |->
        LET i == CHOOSE i \in 1..Len(run) : run[i].fin = k
        IN <<"tool", run[i].call, run[i].out>>]

\* ToolNode, once the calls it ran concurrently (asyncio.gather) have all
\* finished: one ToolMessage per call, in call order whatever the order the
\* calls finished in.
tool_node(run) == [i \in 1..Len(run) |-> <<"tool", run[i].call, run[i].out>>]

(* ------------------------ websocket_endpoint -------------------------- *)

\* Sessions whose pending tool node will insert a row.
PendingCreates ==
    {s \in Sessions : pc[s] = "tools" /\
        \E i \in 1..Len(messages[s][Len(messages[s])][3]) :
            messages[s][Len(messages[s])][3][i].name = "create_task"}

\* The create_task calls among the calls of one response.
Creates(calls) == {i \in 1..Len(calls) : calls[i].name = "create_task"}

\* The calls of session s's tool node: those of the last message, started
\* by asyncio.gather when the node runs.
Launched(s) ==
    IF running[s] # << >> THEN running[s]
    ELSE [i \in 1..Len(messages[s][Len(messages[s])][3]) |->
             Started(messages[s][Len(messages[s])][3][i])]

\* The calls of pending tool nodes that have not begun their transaction.
PendingStarts ==
    {si \in Sessions \X (1..MaxCalls) :
        /\ pc[si[1]] = "tools"
        /\ si[2] <= Len(Launched(si[1]))
        /\ Launched(si[1])[si[2]].phase = "start"}

\* The model may ask for inserts only while the id sequence has room, and
\* for calls only while the clock has instants left for them.
HasRoom(r) ==
    /\ Creates(r[3]) # {}
        => nextId + Cardinality(PendingCreates) + Cardinality(Creates(r[3])) - 1
               <= MaxTasks
    /\ now + Cardinality(PendingStarts) + Len(r[3]) <= MaxClock

\* await manager.connect(websocket)
Connect(t) ==
    /\ pc[t] = "idle"
    /\ active_connections' = connect(active_connections, t)
    /\ alive' = [alive EXCEPT ![t] = TRUE]
    /\ pc' = [pc EXCEPT ![t] = "receive"]
    /\ UNCHANGED <<dbVars, step, messages, exc, bc, sent, turn, after, inbox>>

\* The client closes its socket (or the network drops it).
ClientClose(t) ==
    /\ alive[t]
    /\ alive' = [alive EXCEPT ![t] = FALSE]
    /\ UNCHANGED <<dbVars, active_connections, pc, step, messages, exc, bc, sent,
                   turn, after, inbox>>

\* data = await websocket.receive_text(); json.loads(data): a closed socket
\* raises WebSocketDisconnect (the outer except disconnects), a frame that
\* is not a JSON object raises out of the handler, a message starts a turn.
Receive(t) ==
    /\ pc[t] = "receive"
    /\ \/ /\ ~alive[t]
          /\ active_connections' = disconnect(active_connections, t)
          /\ pc' = [pc EXCEPT ![t] = "closed"]
          /\ UNCHANGED messages
       \/ /\ alive[t]
          /\ pc' = [pc EXCEPT ![t] = "crashed"]
          /\ UNCHANGED <<active_connections, messages>>
       \/ /\ alive[t]
          /\ pc' = [pc EXCEPT ![t] = "agent"]
          /\ messages' = [messages EXCEPT ![t] = <<<<"human", "message", << >> >>>>]
          /\ UNCHANGED active_connections
    /\ UNCHANGED <<dbVars, alive, step, exc, bc, sent, turn, after, inbox>>

\* The graph runtime stops a run that has used up its supersteps while a
\* node is still due (GraphRecursionError out of graph.ainvoke).
OutOfSteps(n) == n >= RecursionLimit

\* The exception swallowed and the graph run started over.
Raise_retry(t, what) ==
    /\ pc' = [pc EXCEPT ![t] = "agent"]
    /\ exc' = [exc EXCEPT ![t] = what]

\* An exception reaches "except Exception as e" of the endpoint.
Raise(t, what) ==
    /\ pc' = [pc EXCEPT ![t] = "except"]
    /\ exc' = [exc EXCEPT ![t] = what]

\* graph.ainvoke is over (returned or raised): its message list is gone,
\* the endpoint goes on with what it made of it.
Leave(t, msgs) ==
    /\ messages' = [messages EXCEPT ![t] = << >>]
    /\ turn' = [turn EXCEPT ![t] = Summary(msgs)]

\* The "agent" node: call_model, the model answering with one of the given
\* responses (or failing), then the conditional edge.
AgentOn(t, responses) ==
    /\ pc[t] = "agent"
    /\ step' = [step EXCEPT ![t] = @ + 1]
    /\ \/ /\ Raise(t, "model")
          /\ Leave(t, messages[t])
       \/ \E r \in responses :
             LET msgs == Append(messages[t], r)
             IN /\ HasRoom(r)
                /\ should_continue(msgs) = "END"
                /\ pc' = [pc EXCEPT ![t] = "respond"]
                /\ Leave(t, msgs)
                /\ UNCHANGED exc
       \/ \E r \in responses :
             LET msgs == Append(messages[t], r)
             IN /\ HasRoom(r)
                /\ should_continue(msgs) = "tools"
                /\ ~OutOfSteps(step'[t])
                /\ pc' = [pc EXCEPT ![t] = "tools"]
                /\ messages' = [messages EXCEPT ![t] = msgs]
                /\ UNCHANGED <<exc, turn>>
       \/ \E r \in responses :
             LET msgs == Append(messages[t], r)
             IN /\ should_continue(msgs) = "tools"
                /\ OutOfSteps(step'[t])
                /\ Raise(t, "recursion")
                /\ Leave(t, msgs)
    /\ UNCHANGED <<dbVars, active_connections, alive, bc, sent, after, inbox>>

\* The agent node with a model that issues one tool call per response.
Agent(t) == AgentOn(t, ModelResponses)

\* The order the database returns equal-keyed rows in, for the calls that
\* run an ordered query.
TiesFor(call) ==
    IF call.name \in {"list_tasks", "filter_tasks"} THEN Ties(DOMAIN tasks)
                                                    ELSE {<< >>}

\* The call's next await begins its transaction.
first(st) == st.phase = "start" /\ opens(st.call)

\* The calls of session t's tool node with call i one await further (r); a
\* call that has finished gets its place in the order of finishing.
ran(t, i, r) ==
    [Launched(t) EXCEPT ![i] =
        IF r.st.phase = "done"
            THEN [r.st EXCEPT !.fin =
                     1 + Cardinality({j \in 1..Len(Launched(t)) :
                                         Launched(t)[j].phase = "done"})]
            ELSE r.st]

\* A tool node whose tools let their exceptions out of graph.ainvoke.
ToolsEnd_raising(t, run) ==
    /\ step' = [step EXCEPT ![t] = @ + 1]
    /\ running' = [running EXCEPT ![t] = << >>]
    /\ IF \E k \in 1..Len(run) : run[k].out[1] \in Failures
          THEN Raise(t, "tool") /\ Leave(t, messages[t] \o tool_node(run))
          ELSE /\ pc' = [pc EXCEPT ![t] = "agent"]
               /\ messages' = [messages EXCEPT ![t] = @ \o tool_node(run)]
               /\ UNCHANGED <<exc, turn>>

\* The last call of the node has finished: the tool messages are appended
\* in call order and the edge leads back to "agent", unless the run has
\* used up its supersteps.
ToolsEnd(t, run) ==
    /\ step' = [step EXCEPT ![t] = @ + 1]
    /\ running' = [running EXCEPT ![t] = << >>]
    /\ \/ /\ ~OutOfSteps(step'[t])
          /\ pc' = [pc EXCEPT ![t] = "agent"]
          /\ messages' = [messages EXCEPT ![t] = @ \o tool_node(run)]
          /\ UNCHANGED <<exc, turn>>
       \/ /\ OutOfSteps(step'[t])
          /\ Raise(t, "recursion")
          /\ Leave(t, messages[t] \o tool_node(run))

\* The node with its calls at run: it waits for the calls still in flight,
\* or all have finished.
ToolsOn(t, run) ==
    \/ /\ \E j \in 1..Len(run) : run[j].phase # "done"
       /\ running' = [running EXCEPT ![t] = run]
       /\ UNCHANGED <<pc, step, messages, exc, turn>>
    \/ /\ \A j \in 1..Len(run) : run[j].phase = "done"
       /\ ToolsEnd(t, run)

\* Call i of the node has been through one await (r), which began its
\* transaction (opened, its now() is taken) or ended it.
Awaited(t, i, r, opened) ==
    /\ tasks' = r.db.tasks
    /\ nextId' = r.db.nextId
    /\ now' = IF opened THEN now + 1 ELSE now
    /\ ToolsOn(t, ran(t, i, r))

\* The "tools" node, one await of one of its calls at a time: the call's
\* transaction begins or commits, other handlers run in between; when the
\* last call has finished, the edge back to "agent".
Tools(t) ==
    /\ pc[t] = "tools"
    /\ \E i \in 1..Len(Launched(t)) :
       /\ Launched(t)[i].phase # "done"
       /\ \E tie \in TiesFor(Launched(t)[i].call) :
             Awaited(t, i,
                     advance(Db(tasks, nextId,
                                IF first(Launched(t)[i]) THEN now + 1
                                                         ELSE Launched(t)[i].t,
                                tie),
                             Launched(t)[i]),
                     first(Launched(t)[i]))
    /\ UNCHANGED <<active_connections, alive, bc, sent, after, inbox>>

\* The turn is over: control is at the head of "while True" (or leaves the
\* handler); no await lies between here and the next receive_text.
Finish(t, next) ==
    /\ pc' = [pc EXCEPT ![t] = "done"]
    /\ after' = [after EXCEPT ![t] = next]

\* A reply handed to manager.broadcast instead: one frame per connection.
agent_response_to_all(t) ==
    SelectSeq([i \in 1..NumSessions |-> Frame("agent_response", i)],
              LAMBDA f : f.to \in active_connections \cup {t})

\* The agent_response frame: send_personal_message(..., websocket), the
\* caller's own socket.
agent_response(t) == <<Frame("agent_response", t)>>

\* agent_response = response["messages"][-1].content, sent to the caller;
\* a failed send raises into "except Exception as e".
Respond(t) ==
    /\ pc[t] = "respond"
    /\ sent' = [sent EXCEPT ![t] = @ \o agent_response(t)]
    /\ \/ /\ send_personal_message(t) = "sent"
          /\ pc' = [pc EXCEPT ![t] = "broadcast"]
          /\ UNCHANGED exc
       \/ /\ send_personal_message(t) = "raised"
          /\ Raise(t, "send")
    /\ UNCHANGED <<dbVars, active_connections, alive, step, messages, bc, turn, after, inbox>>

\* The set iterator of "for connection in self.active_connections".
StartBroadcast(conns) ==
    [started |-> TRUE, size |-> Cardinality(conns), start |-> conns,
     visited |-> {}, disconnected |-> {}]

\* The iterator raises RuntimeError when the set's size differs from the
\* size it had when the loop began.
SetChanged(b, conns) == Cardinality(conns) # b.size

\* manager.broadcast, one await at a time: the size check of the set
\* iterator, then either the next send_text (failures collected) or the end
\* of the loop and the removal of the collected connections.
Broadcast(t) ==
    /\ pc[t] = "broadcast"
    /\ LET b == IF bc[t].started THEN bc[t] ELSE StartBroadcast(active_connections)
       IN \/ /\ SetChanged(b, active_connections)
             /\ Raise(t, "setchanged")
             /\ bc' = [bc EXCEPT ![t] = b]
             /\ UNCHANGED <<active_connections, sent, after>>
          \/ /\ ~SetChanged(b, active_connections)
             /\ \E c \in active_connections \ b.visited :
                   /\ sent' = [sent EXCEPT ![t] = Append(@, Frame("task_update", c))]
                   /\ bc' = [bc EXCEPT ![t] =
                                [b EXCEPT !.visited = @ \cup {c},
                                          !.disconnected =
                                              IF delivers(c) THEN @ ELSE @ \cup {c}]]
             /\ UNCHANGED <<active_connections, pc, exc, after>>
          \/ /\ ~SetChanged(b, active_connections)
             /\ (b.start \cap active_connections) \subseteq b.visited
             /\ active_connections' = active_connections \ b.disconnected
             /\ Finish(t, "receive")
             /\ bc' = [bc EXCEPT ![t] = b]
             /\ UNCHANGED <<sent, exc>>
    /\ UNCHANGED <<dbVars, alive, step, messages, turn, inbox>>

\* except Exception as e: the error frame to the caller, handed to
\* send_text; the handler waits in that send while other handlers, clients
\* and pages run. When the send raises, the exception leaves the loop: a
\* WebSocketDisconnect reaches the outer except (disconnect), any other
\* exception ends the handler with the connection still in the set.
Except(t) ==
    /\ pc[t] = "except"
    /\ sent' = [sent EXCEPT ![t] = Append(@, Frame("error", t))]
    /\ \/ /\ send_personal_message(t) = "sent"
          /\ pc' = [pc EXCEPT ![t] = "sending"]
          /\ UNCHANGED <<active_connections, after>>
       \/ /\ send_personal_message(t) = "raised"
          /\ active_connections' = disconnect(active_connections, t)
          /\ Finish(t, "closed")
       \/ /\ send_personal_message(t) = "raised"
          /\ Finish(t, "crashed")
          /\ UNCHANGED active_connections
    /\ UNCHANGED <<dbVars, alive, step, messages, exc, bc, turn, inbox>>

\* The send of the error frame has returned: the except clause is over and
\* control is back at "while True".
ErrorSent(t) ==
    /\ pc[t] = "sending"
    /\ Finish(t, "receive")
    /\ UNCHANGED <<dbVars, active_connections, alive, step, messages, exc, bc, sent,
                   turn, inbox>>

\* Back at "while True" the turn's locals are dropped and receive_text is
\* awaited again (or the handler has returned).
Settle(t) ==
    /\ pc[t] = "done"
    /\ pc' = [pc EXCEPT ![t] = after[t]]
    /\ after' = [after EXCEPT ![t] = "none"]
    /\ step' = [step EXCEPT ![t] = 0]
    /\ messages' = [messages EXCEPT ![t] = << >>]
    /\ exc' = [exc EXCEPT ![t] = "none"]
    /\ bc' = [bc EXCEPT ![t] = NoBroadcast]
    /\ sent' = [sent EXCEPT ![t] = << >>]
    /\ turn' = [turn EXCEPT ![t] = NoTurn]
    /\ UNCHANGED <<dbVars, active_connections, alive, inbox>>

\* Handlers whose turn has just ended: they run on without suspending, so
\* nothing else is scheduled before they settle.
Done == {t \in Sessions : pc[t] = "done"}

Next ==
    \/ \E t \in Sessions : Settle(t) /\ UNCHANGED <<client, running>>
    \/ \E t \in Sessions : Done = {} /\ Connect(t) /\ UNCHANGED <<client, running>>
    \/ \E t \in Sessions : Done = {} /\ ClientClose(t) /\ UNCHANGED <<client, running>>
    \/ \E t \in Sessions : Done = {} /\ Receive(t) /\ UNCHANGED <<client, running>>
    \/ \E t \in Sessions : Done = {} /\ Agent(t) /\ UNCHANGED <<client, running>>
    \/ \E t \in Sessions : Done = {} /\ Tools(t) /\ UNCHANGED client
    \/ \E t \in Sessions : Done = {} /\ Respond(t) /\ UNCHANGED <<client, running>>
    \/ \E t \in Sessions : Done = {} /\ Broadcast(t) /\ UNCHANGED <<client, running>>
    \/ \E t \in Sessions : Done = {} /\ Except(t) /\ UNCHANGED <<client, running>>
    \/ \E t \in Sessions : Done = {} /\ ErrorSent(t) /\ UNCHANGED <<client, running>>

Spec == Init /\ [][Next]_vars

(* ---------------- responses with several tool calls ------------------ *)

\* The tool calls the model combines in one response in the turn runs.
TurnCalls == {c \in ToolCalls : c.name # "filter_tasks" /\ c.args # CreateArgs("a", "urgent")}

\* The non-empty call lists of at most MaxCalls calls.
CallLists ==
    UNION {[1..n -> TurnCalls] : n \in 1..MaxCalls}

WideResponses == {AIText} \cup {AICalls(cs) : cs \in CallLists}

\* The agent node with a model that may issue several calls per response.
AgentWide(t) == AgentOn(t, WideResponses)

\* One client connected, its handler waiting in receive_text.
TurnInit ==
    /\ tasks = << >>
    /\ nextId = 1
    /\ now = 0
    /\ active_connections = {1}
    /\ alive = [s \in Sessions |-> s = 1]
    /\ pc = [s \in Sessions |-> IF s = 1 THEN "receive" ELSE "idle"]
    /\ step = [s \in Sessions |-> 0]
    /\ messages = [s \in Sessions |-> << >>]
    /\ exc = [s \in Sessions |-> "none"]
    /\ bc = [s \in Sessions |-> NoBroadcast]
    /\ sent = [s \in Sessions |-> << >>]
    /\ turn = [s \in Sessions |-> NoTurn]
    /\ after = [s \in Sessions |-> "none"]
    /\ inbox = [s \in Sessions |-> NoFrames]
    /\ client = [s \in Sessions |-> NewPage("page.tsx", "TaskItem.tsx")]
    /\ running = [s \in Sessions |-> << >>]

TurnNext ==
    \/ \E t \in Sessions : Settle(t) /\ UNCHANGED <<client, running>>
    \/ \E t \in Sessions : Done = {} /\ Receive(t) /\ UNCHANGED <<client, running>>
    \/ \E t \in Sessions : Done = {} /\ AgentWide(t) /\ UNCHANGED <<client, running>>
    \/ \E t \in Sessions : Done = {} /\ Tools(t) /\ UNCHANGED client
    \/ \E t \in Sessions : Done = {} /\ Respond(t) /\ UNCHANGED <<client, running>>
    \/ \E t \in Sessions : Done = {} /\ Broadcast(t) /\ UNCHANGED <<client, running>>
    \/ \E t \in Sessions : Done = {} /\ Except(t) /\ UNCHANGED <<client, running>>
    \/ \E t \in Sessions : Done = {} /\ ErrorSent(t) /\ UNCHANGED <<client, running>>

TurnSpec == TurnInit /\ [][TurnNext]_vars

(* ------------------------- the tools alone ---------------------------- *)

\* Argument values the model passes in the tool runs: valid ones in several
\* casings, unknown ones, empty strings and omitted ones.
TitleArgs == {"a"}

PriorityArgs == {"medium", "HIGH", "urgent"}

DueArgs == {None, "2025-09-22", "tomorrow"}

StatusArgs == {None, "COMPLETED", "bogus"}

IdArgs == 1..MaxTasks

\* Tool calls in flight at once in the store runs.
MaxOpen == 2

\* What a call leaves when it has run to its first await that reaches the
\* database and through it (r): the store as it is then; a call that has
\* finished there returns (the call and what it returned are kept as the
\* tool message), a call with an await still to come stays in flight.
StoreBegun(call, r) ==
    /\ tasks' = r.db.tasks
    /\ nextId' = r.db.nextId
    /\ IF r.st.phase = "done"
          THEN /\ messages' = [messages EXCEPT ![1] = <<<<"tool", call, r.st.out>>>>]
               /\ UNCHANGED running
          ELSE /\ running' = [running EXCEPT ![1] = Append(@, r.st)]
               /\ UNCHANGED messages

\* One tool called by some handler's tool node; other calls begin or go on
\* before a call in flight does. The calls in flight, whatever node they
\* belong to, are kept in running[1].
StoreCall(call) ==
    /\ Len(running[1]) < MaxOpen
    /\ \E tie \in TiesFor(call) :
          StoreBegun(call, begin(Db(tasks, nextId,
                                    IF opens(call) THEN now + 1 ELSE now, tie),
                                 Started(call)))
    /\ now' = IF opens(call) THEN now + 1 ELSE now
    /\ UNCHANGED <<active_connections, alive, pc, step, exc, bc, sent, turn, after,
                   inbox, client>>

\* What the i-th call in flight leaves when it returns (r): the store, its
\* tool message, the other calls still in flight.
StoreReturned(i, r) ==
    /\ tasks' = r.db.tasks
    /\ nextId' = r.db.nextId
    /\ messages' = [messages EXCEPT ![1] = <<<<"tool", r.st.call, r.st.out>>>>]
    /\ running' = [running EXCEPT ![1] =
                      SubSeq(@, 1, i - 1) \o SubSeq(@, i + 1, Len(@))]

\* The last await of a call in flight is released: the commit of
\* update_task and delete_task, the refresh of create_task; the call
\* returns.
StoreReturn ==
    /\ \E i \in 1..Len(running[1]) :
          StoreReturned(i, finish(Db(tasks, nextId, running[1][i].t, << >>),
                                  running[1][i]))
    /\ UNCHANGED <<now, active_connections, alive, pc, step, exc, bc, sent, turn,
                   after, inbox, client>>

StoreCreate ==
    /\ now < MaxClock
    /\ nextId <= MaxTasks
    /\ \E title \in TitleArgs, priority \in PriorityArgs, due_date \in DueArgs :
        StoreCall(Call("create_task",
                       [title |-> title, description |-> "", priority |-> priority,
                        due_date |-> due_date]))

StoreUpdate ==
    /\ now < MaxClock
    /\ \E id \in IdArgs, title \in {None, "b"}, description \in {None, "", "d"},
       status \in StatusArgs, priority \in {None, "HIGH"} :
        StoreCall(Call("update_task",
                       [task_id |-> id, title |-> title, description |-> description,
                        status |-> status, priority |-> priority]))

StoreDelete ==
    /\ now < MaxClock
    /\ \E id \in IdArgs : StoreCall(Call("delete_task", [task_id |-> id]))

StoreList ==
    /\ now < MaxClock
    /\ \E status \in StatusArgs \cup {"Todo"} :
        StoreCall(Call("list_tasks", [status |-> status]))

StoreFilter ==
    /\ now < MaxClock
    /\ \E priority \in {None, "HIGH", "medium"}, status \in {None, "COMPLETED", "Todo"} :
        StoreCall(Call("filter_tasks", [priority |-> priority, status |-> status]))

StoreNext ==
    \/ StoreCreate
    \/ StoreUpdate
    \/ StoreDelete
    \/ StoreList
    \/ StoreFilter
    \/ StoreReturn

StoreSpec == Init /\ [][StoreNext]_vars

(* ------------------- one connection's receive queue ------------------- *)

\* Frames a client sends on one connection in the queue runs.
MaxFrames == 2

\* What a client may put into a frame: the text of a JSON object, or not.
FrameTexts == {"json", "not json"}

\* The client sends its next frame while the handler may be busy with a
\* turn: the frame waits in the socket's queue, numbered in arrival order.
\* Any client can connect, so the text need not be JSON.
Arrive(t) ==
    /\ alive[t]
    /\ inbox[t].n < MaxFrames
    /\ \E text \in FrameTexts :
          inbox' = [inbox EXCEPT ![t] =
                       [q |-> Append(@.q, @.n + 1), n |-> @.n + 1,
                        text |-> Append(@.text, text)]]
    /\ UNCHANGED <<dbVars, active_connections, alive, pc, step, messages, exc, bc,
                   sent, turn, after, client, running>>

\* A receive that hands out the frame that arrived last.
receive_newest(q) == q[Len(q)]

\* await websocket.receive_text(): the frame that has waited longest.
receive_text(q) == Head(q)

\* data = await websocket.receive_text() with the client's frames queued:
\* the handler, back at the head of its loop, takes one frame and starts
\* the turn for it; it suspends while the queue is empty. json.loads (and
\* message_data.get) raises for a frame that is not the text of a JSON
\* object: the exception leaves the handler, no turn starts, the
\* connection stays in the set and the frames still queued are never taken.
ReceiveQueued(t) ==
    /\ pc[t] = "receive"
    /\ inbox[t].q # << >>
    /\ LET data == receive_text(inbox[t].q)
           at == CHOOSE k \in 1..Len(inbox[t].q) : inbox[t].q[k] = data
       IN /\ inbox' = [inbox EXCEPT ![t].q = SelectSeq(@, LAMBDA f : f # data),
                                     ![t].text = SubSeq(@, 1, at - 1)
                                                    \o SubSeq(@, at + 1, Len(@))]
          /\ \/ /\ inbox[t].text[at] = "json"
                /\ messages' = [messages EXCEPT ![t] = <<<<"human", data, << >> >>>>]
                /\ pc' = [pc EXCEPT ![t] = "agent"]
             \/ /\ inbox[t].text[at] # "json"
                /\ pc' = [pc EXCEPT ![t] = "crashed"]
                /\ UNCHANGED messages
    /\ UNCHANGED <<dbVars, active_connections, alive, step, exc, bc, sent, turn,
                   after, client, running>>

\* Every client connected, every handler waiting in receive_text.
QueueInit ==
    /\ tasks = << >>
    /\ nextId = 1
    /\ now = 0
    /\ active_connections = Sessions
    /\ alive = [s \in Sessions |-> TRUE]
    /\ pc = [s \in Sessions |-> "receive"]
    /\ step = [s \in Sessions |-> 0]
    /\ messages = [s \in Sessions |-> << >>]
    /\ exc = [s \in Sessions |-> "none"]
    /\ bc = [s \in Sessions |-> NoBroadcast]
    /\ sent = [s \in Sessions |-> << >>]
    /\ turn = [s \in Sessions |-> NoTurn]
    /\ after = [s \in Sessions |-> "none"]
    /\ inbox = [s \in Sessions |-> NoFrames]
    /\ client = [s \in Sessions |-> NewPage("page.tsx", "TaskItem.tsx")]
    /\ running = [s \in Sessions |-> << >>]

QueueNext ==
    \/ \E t \in Sessions : Settle(t) /\ UNCHANGED <<client, running>>
    \/ \E t \in Sessions : Done = {} /\ Arrive(t)
    \/ \E t \in Sessions : Done = {} /\ ReceiveQueued(t)
    \/ \E t \in Sessions : Done = {} /\ Agent(t) /\ UNCHANGED <<client, running>>
    \/ \E t \in Sessions : Done = {} /\ Tools(t) /\ UNCHANGED client
    \/ \E t \in Sessions : Done = {} /\ Respond(t) /\ UNCHANGED <<client, running>>
    \/ \E t \in Sessions : Done = {} /\ Broadcast(t) /\ UNCHANGED <<client, running>>
    \/ \E t \in Sessions : Done = {} /\ Except(t) /\ UNCHANGED <<client, running>>
    \/ \E t \in Sessions : Done = {} /\ ErrorSent(t) /\ UNCHANGED <<client, running>>

QueueSpec == QueueInit /\ [][QueueNext]_vars

(* ----------------------------- the client ----------------------------- *)

\* Entries the chat log may hold before the page stops taking more.
MaxLog == 3

\* Frames the socket delivers to one page.
MaxRecv == 2

\* The pages in src/: app/page.tsx and the HomePage of unnamed/part_000.
PageVariants == {"page.tsx", "part_000"}

\* The browsers of the client-only specification.
Browsers == {1}

\* The status values a task has on the wire: the values of TaskStatus.
WireStatus == TaskStatus

\* due_date on the wire: absent, a date that has passed, a date to come.
DueDates == {None, "2020-01-01T00:00:00", "2030-01-01T00:00:00"}

\* new Date(s) for the dates above, and new Date() (the browser's clock),
\* as years.
Date(s) == IF s = "2020-01-01T00:00:00" THEN 2020 ELSE 2030

ClientNow == 2026

WireTask(id, status, due_date) == [id |-> id, status |-> status, due_date |-> due_date]

\* The tasks arrays a frame may carry: none, one task in every status and
\* due date, or that task followed by a second one.
TaskArrays ==
    LET ones == {WireTask(1, st, d) : st \in WireStatus, d \in DueDates}
    IN {<< >>} \cup {<<t>> : t \in ones}
               \cup {<<t, WireTask(2, "completed", None)>> : t \in ones}

\* JSON.parse(event.data): what a server of this protocol may send; the
\* listed server's task_update (Body) carries no tasks.
WireFrames ==
    {Body("agent_response"), Body("error"), Body("task_update")}
        \cup {[type |-> ty, tasks |-> a] :
                 ty \in {"initial_tasks", "task_update"}, a \in TaskArrays}

\* setTasks(data.tasks): data.tasks is undefined when the frame has no such
\* key.
setTasks(cl, data) ==
    [cl EXCEPT !.tasks = IF "tasks" \in DOMAIN data
                            THEN [defined |-> TRUE, list |-> data.tasks]
                            ELSE [defined |-> FALSE, list |-> << >>]]

\* setMessages(prev => [...prev, {type, message, timestamp}]); the timestamp
\* is not modelled.
setMessages(cl, type, message) ==
    [cl EXCEPT !.messages = Append(@, [type |-> type, message |-> message])]

\* websocket.onmessage of each page: page.tsx shows agent responses and
\* has an empty task_update branch; part_000 also takes the tasks of
\* initial_tasks and task_update. Neither has a branch for "error".
onmessage(cl, data) ==
    IF cl.variant = "page.tsx"
        THEN IF data.type = "agent_response"
                 THEN setMessages(cl, "agent", data.message)
                 ELSE cl
    ELSE IF data.type = "initial_tasks" THEN setTasks(cl, data)
    ELSE IF data.type = "agent_response"
        THEN setMessages(cl, "agent", data.message)
    ELSE IF data.type = "task_update" THEN setTasks(cl, data)
    ELSE cl

\* The page's handler puts the tasks array of the frame in place of its
\* list.
takesTasks(cl, data) ==
    /\ "tasks" \in DOMAIN data
    /\ onmessage(cl, data).tasks = setTasks(cl, data).tasks

\* The socket hands a frame to the page: onmessage, and the record of what
\* the wire delivered and of what became of a local edit (edited: the list
\* holds a handleTaskUpdate edit; replaced: the tasks of a task_update
\* have taken the place of an edited list).
deliver(cl, data) ==
    [onmessage(cl, data) EXCEPT
        !.first = IF cl.first = "none" THEN data.type ELSE @,
        !.initials = IF data.type = "initial_tasks" THEN @ + 1 ELSE @,
        !.last = IF data.type = "task_update" THEN <<data>> ELSE @,
        !.recv = @ + 1,
        !.edited = IF takesTasks(cl, data) THEN FALSE ELSE @,
        !.replaced = @ \/ (/\ cl.edited
                            /\ data.type = "task_update"
                            /\ takesTasks(cl, data))]

\* websocket.onopen.
onopen(cl) ==
    setMessages([cl EXCEPT !.readyState = "OPEN", !.isConnected = TRUE],
                "system", "Connected to AI Task Assistant")

\* websocket.onclose.
onclose(cl) == [cl EXCEPT !.readyState = "CLOSED", !.isConnected = FALSE]

\* websocket.close(), as the effect's cleanup calls it: a socket that is
\* connecting or open starts closing, one that is closing or closed stays.
close(cl) ==
    [cl EXCEPT !.readyState = IF @ \in {"CONNECTING", "OPEN"} THEN "CLOSING" ELSE @]

\* handleMessageSent: the log entry first, then the send if the socket is
\* there and OPEN.
handleMessageSent(cl, message) ==
    LET shown == setMessages(cl, "user", message)
    IN IF cl.readyState # "none" /\ cl.readyState = "OPEN"
           THEN [shown EXCEPT !.out = Append(@, [message |-> message])]
           ELSE shown

\* String.prototype.trim on the inputs of the model.
trim(str) == IF str = " " THEN "" ELSE str

Inputs == {"hi", " "}

\* ChatInterface.handleSubmit.
handleSubmit(cl, inputMessage) ==
    IF trim(inputMessage) # "" /\ cl.isConnected
        THEN handleMessageSent(cl, trim(inputMessage))
        ELSE cl

\* A handleTaskUpdate that also sends the edit to the server.
handleTaskUpdate_sending(cl, taskId, updates) ==
    [cl EXCEPT !.tasks.list =
                   [i \in 1..Len(@) |->
                       IF @[i].id = taskId THEN [@[i] EXCEPT !.status = updates.status]
                                           ELSE @[i]],
               !.out = Append(@, [message |-> updates.status])]

\* handleTaskUpdate: prev.map(task => task.id === taskId ? {...task,
\* ...updates} : task), updates being {status}.
handleTaskUpdate(cl, taskId, updates) ==
    [cl EXCEPT !.tasks.list =
        [i \in 1..Len(@) |->
            IF @[i].id = taskId THEN [@[i] EXCEPT !.status = updates.status]
                                ELSE @[i]]]

\* TaskList's columns, in order.
columns == <<"in_progress", "overdue", "completed", "archived">>

\* TaskList's grouped[key] filter applied to one task.
grouped(key, t) ==
    CASE key = "in_progress" -> t.status = "inprogress"
      [] key = "overdue" ->
            IF t.status = "completed" \/ t.status = "archived" THEN FALSE
            ELSE IF t.due_date = None THEN FALSE
            ELSE Date(t.due_date) < ClientNow
      [] key = "completed" -> t.status = "completed"
      [] key = "archived" -> t.status = "archived"

\* The columns that render a TaskItem for task t.
ColumnsOf(t) == {k \in 1..Len(columns) : grouped(columns[k], t)}

\* The TaskItem components in src/: components/tasks/TaskItem.tsx and
\* those of unnamed/part_001 and unnamed/part_002.
ItemVariants == {"TaskItem.tsx", "part_001", "part_002"}

\* The status a TaskItem can pass to onUpdate for a task: a value of its
\* select (TaskItem.tsx, part_001), or what its button toggles to
\* (part_002).
StatusOptions(item, t) ==
    CASE item = "TaskItem.tsx" -> {"IN_PROGRESS", "COMPLETED", "ARCHIVED"}
      [] item = "part_001" -> {"in_progress", "completed", "archived"}
      [] item = "part_002" ->
            {IF t.status = "completed" THEN "inprogress" ELSE "completed"}

\* The page renders: it is mounted, and TaskList, which calls tasks.filter,
\* has not thrown on undefined tasks (nothing catches that).
Renders(cl) == cl.mounted /\ cl.tasks.defined

ClientUnchanged ==
    UNCHANGED <<tasks, nextId, now, active_connections, alive, pc, step, messages,
                exc, bc, sent, turn, after, inbox, running>>

\* useEffect: new WebSocket(...), setWs.
Mount(b) ==
    /\ client[b].readyState = "none"
    /\ client' = [client EXCEPT ![b].readyState = "CONNECTING"]
    /\ ClientUnchanged

OnOpen(b) ==
    /\ client[b].readyState = "CONNECTING"
    /\ Len(client[b].messages) < MaxLog
    /\ client' = [client EXCEPT ![b] = onopen(@)]
    /\ ClientUnchanged

\* The page can be handed a frame: its socket is open, it is still
\* rendered, and its log has room for what the frame adds.
Takes(cl, data) ==
    /\ cl.readyState = "OPEN"
    /\ Renders(cl)
    /\ data.type = "agent_response" => Len(cl.messages) < MaxLog

OnMessage(b) ==
    /\ client[b].recv < MaxRecv
    /\ \E data \in WireFrames :
        /\ Takes(client[b], data)
        /\ client' = [client EXCEPT ![b] = deliver(@, data)]
    /\ ClientUnchanged

\* The closing handshake has begun (the server closes, or the connection
\* fails); the close event has not fired yet.
Closing(b) ==
    /\ client[b].readyState = "OPEN"
    /\ client' = [client EXCEPT ![b].readyState = "CLOSING"]
    /\ ClientUnchanged

OnClose(b) ==
    /\ client[b].readyState \in {"CONNECTING", "OPEN", "CLOSING"}
    /\ client' = [client EXCEPT ![b] = onclose(@)]
    /\ ClientUnchanged

\* The root is unmounted (the user leaves the page, or a render has thrown
\* in TaskList and nothing catches it): the effect's cleanup runs.
Unmount(b) ==
    /\ client[b].mounted
    /\ client[b].readyState # "none"
    /\ client' = [client EXCEPT ![b] = close([@ EXCEPT !.mounted = FALSE])]
    /\ ClientUnchanged

\* The user submits the chat form.
Submit(b) ==
    /\ Renders(client[b])
    /\ Len(client[b].messages) < MaxLog
    /\ \E inputMessage \in Inputs :
        /\ handleSubmit(client[b], inputMessage) # client[b]
        /\ client' = [client EXCEPT ![b] = handleSubmit(@, inputMessage)]
    /\ ClientUnchanged

\* The user picks a status in the select of a TaskItem that is on screen.
TaskEdit(b) ==
    /\ Renders(client[b])
    /\ \E i \in 1..Len(client[b].tasks.list) :
       \E v \in StatusOptions(client[b].item, client[b].tasks.list[i]) :
        /\ ColumnsOf(client[b].tasks.list[i]) # {}
        /\ client[b].tasks.list[i].status # v
        /\ client' = [client EXCEPT ![b] =
                         [handleTaskUpdate(@, client[b].tasks.list[i].id,
                                           [status |-> v])
                             EXCEPT !.edited = TRUE]]
    /\ ClientUnchanged

ClientInit ==
    /\ ServerInit
    /\ \E v \in PageVariants, item \in ItemVariants :
        client = [s \in Sessions |-> IF s \in Browsers
                                        THEN NewPage(v, item)
                                        ELSE NewPage("page.tsx", "TaskItem.tsx")]

ClientNext ==
    \/ \E b \in Browsers : Mount(b)
    \/ \E b \in Browsers : OnOpen(b)
    \/ \E b \in Browsers : OnMessage(b)
    \/ \E b \in Browsers : Closing(b)
    \/ \E b \in Browsers : OnClose(b)
    \/ \E b \in Browsers : Unmount(b)
    \/ \E b \in Browsers : Submit(b)
    \/ \E b \in Browsers : TaskEdit(b)

ClientSpec == ClientInit /\ [][ClientNext]_vars

(* ---------------------- server and pages together --------------------- *)

\* The endpoint accepts the socket a page has opened.
WireConnect(t) ==
    /\ client[t].readyState = "CONNECTING"
    /\ Connect(t)
    /\ UNCHANGED <<client, running>>

\* The handshake response has reached the browser: onopen.
WireOpen(t) ==
    /\ pc[t] # "idle"
    /\ OnOpen(t)

\* The replies a page may still be handed: one for each of its frames that
\* waits in the endpoint's socket or whose turn has not answered yet, and
\* those waiting in its own socket.
RepliesDue(t) ==
    Len(inbox[t].q)
      + (IF pc[t] \in {"agent", "tools", "respond"} THEN 1 ELSE 0)
      + Len(SelectSeq(client[t].down, LAMBDA f : f.type = "agent_response"))

\* The user submits the chat form, at any time the page lets them; a frame
\* handed to ws.send (JSON.stringify({ message }), the text of a JSON
\* object) waits in the endpoint's socket until receive_text takes it. The
\* log keeps room for the replies.
WireSubmit(t) ==
    /\ Renders(client[t])
    /\ Len(client[t].messages) + RepliesDue(t) + 2 <= MaxLog
    /\ inbox[t].n < MaxFrames
    /\ \E inputMessage \in Inputs :
       LET cl == handleSubmit(client[t], inputMessage)
       IN /\ cl # client[t]
          /\ client' = [client EXCEPT ![t] = cl]
          /\ inbox' = IF Len(cl.out) > Len(client[t].out)
                         THEN [inbox EXCEPT ![t] = [q |-> Append(@.q, @.n + 1),
                                                    n |-> @.n + 1,
                                                    text |-> Append(@.text, "json")]]
                         ELSE inbox
    /\ UNCHANGED <<dbVars, active_connections, alive, pc, step, messages, exc, bc,
                   sent, turn, after, running>>

\* The frame this step handed to send_text, if the send got through, waits
\* in the socket of the page it was written to.
Transmit(t) ==
    IF Len(sent'[t]) > Len(sent[t]) /\ sent'[t][Len(sent'[t])].ok
        THEN LET f == sent'[t][Len(sent'[t])]
             IN client' = [client EXCEPT ![f.to].down = Append(@, f.body)]
        ELSE UNCHANGED client

\* The browser hands the page the frame that has waited longest.
WireMessage(t) ==
    /\ client[t].down # << >>
    /\ Takes(client[t], Head(client[t].down))
    /\ client' = [client EXCEPT ![t] =
                     deliver([@ EXCEPT !.down = Tail(@)], Head(client[t].down))]
    /\ ClientUnchanged

\* The page's close reaches the endpoint's socket, some time after the
\* page called websocket.close(); the page's close event fires once the
\* connection is down at the other end (or was never accepted).
CloseArrives(t) ==
    /\ client[t].readyState = "CLOSING"
    /\ ClientClose(t)
    /\ UNCHANGED <<client, running>>

\* What the model answers in the runs with pages: text, or an insert.
WireResponses == {AIText, AICalls(<<Call("create_task", CreateArgs("a", "medium"))>>)}

AgentWire(t) == AgentOn(t, WireResponses)

\* No page loaded yet; every browser will load the same page.
WireInit ==
    /\ ServerInit
    /\ \E v \in PageVariants :
        client = [s \in Sessions |-> NewPage(v, "TaskItem.tsx")]

WireNext ==
    \/ \E t \in Sessions : Settle(t) /\ UNCHANGED <<client, running>>
    \/ \E t \in Sessions : Done = {} /\ Mount(t)
    \/ \E t \in Sessions : Done = {} /\ WireConnect(t)
    \/ \E t \in Sessions : Done = {} /\ WireOpen(t)
    \/ \E t \in Sessions : Done = {} /\ WireSubmit(t)
    \/ \E t \in Sessions : Done = {} /\ WireMessage(t)
    \/ \E t \in Sessions : Done = {} /\ Unmount(t)
    \/ \E t \in Sessions : Done = {} /\ CloseArrives(t)
    \/ \E t \in Sessions : Done = {} /\ client[t].readyState = "CLOSING" /\ ~alive[t] /\ OnClose(t)
    \/ \E t \in Sessions : Done = {} /\ ~alive[t] /\ Receive(t) /\ UNCHANGED <<client, running>>
    \/ \E t \in Sessions : Done = {} /\ ReceiveQueued(t)
    \/ \E t \in Sessions : Done = {} /\ AgentWire(t) /\ UNCHANGED <<client, running>>
    \/ \E t \in Sessions : Done = {} /\ Tools(t) /\ UNCHANGED client
    \/ \E t \in Sessions : Done = {} /\ Respond(t) /\ Transmit(t) /\ UNCHANGED running
    \/ \E t \in Sessions : Done = {} /\ Broadcast(t) /\ Transmit(t) /\ UNCHANGED running
    \/ \E t \in Sessions : Done = {} /\ Except(t) /\ Transmit(t) /\ UNCHANGED running
    \/ \E t \in Sessions : Done = {} /\ ErrorSent(t) /\ UNCHANGED <<client, running>>

WireSpec == WireInit /\ [][WireNext]_vars

(* ------------- the connection manager among silent clients ----------- *)

\* The connections of these runs: one client chats, the others connect,
\* send nothing and go away.
Sockets == 1..MaxSockets

Talkers == {1}

\* No connection yet.
RegistryInit ==
    /\ tasks = << >>
    /\ nextId = 1
    /\ now = 0
    /\ active_connections = {}
    /\ alive = [s \in Sockets |-> FALSE]
    /\ pc = [s \in Sockets |-> "idle"]
    /\ step = [s \in Sockets |-> 0]
    /\ messages = [s \in Sockets |-> << >>]
    /\ exc = [s \in Sockets |-> "none"]
    /\ bc = [s \in Sockets |-> NoBroadcast]
    /\ sent = [s \in Sockets |-> << >>]
    /\ turn = [s \in Sockets |-> NoTurn]
    /\ after = [s \in Sockets |-> "none"]
    /\ inbox = [s \in Sockets |-> NoFrames]
    /\ client = [s \in Sockets |-> NewPage("page.tsx", "TaskItem.tsx")]
    /\ running = [s \in Sockets |-> << >>]

\* receive_text returns a frame of a client that chats, or raises
\* WebSocketDisconnect for a client that is gone.
RegistryReceive(t) ==
    /\ t \in Talkers \/ ~alive[t]
    /\ Receive(t)

\* The model answers with text: the turn goes on to its two sends.
AgentText(t) == AgentOn(t, {AIText})

RegistryNext ==
    \/ \E t \in Talkers : Settle(t) /\ UNCHANGED <<client, running>>
    \/ \E t \in Sockets : Done = {} /\ Connect(t) /\ UNCHANGED <<client, running>>
    \/ \E t \in Sockets : Done = {} /\ ClientClose(t) /\ UNCHANGED <<client, running>>
    \/ \E t \in Sockets : Done = {} /\ RegistryReceive(t) /\ UNCHANGED <<client, running>>
    \/ \E t \in Talkers : Done = {} /\ AgentText(t) /\ UNCHANGED <<client, running>>
    \/ \E t \in Talkers : Done = {} /\ Respond(t) /\ UNCHANGED <<client, running>>
    \/ \E t \in Talkers : Done = {} /\ Broadcast(t) /\ UNCHANGED <<client, running>>
    \/ \E t \in Talkers : Done = {} /\ Except(t) /\ UNCHANGED <<client, running>>
    \/ \E t \in Talkers : Done = {} /\ ErrorSent(t) /\ UNCHANGED <<client, running>>

RegistrySpec == RegistryInit /\ [][RegistryNext]_vars

(* ============================== claims ================================ *)

\* The frames of one type that session t's current turn handed to send_text.
FramesOf(t, type) == {i \in 1..Len(sent[t]) : sent[t][i].type = type}

\* The connections those frames went to.
Recipients(t, type) == {sent[t][i].to : i \in FramesOf(t, type)}

\* graph.ainvoke returned: the graph reached END (the turn's DONE).
ReachedEnd(t) ==
    \/ pc[t] \in {"respond", "broadcast"}
    \/ pc[t] \in {"except", "sending", "done"} /\ exc[t] \notin {"model", "recursion"}

\* C1: every turn reaches DONE (the graph's END) within the maximum number
\* of agent/tools round trips: no graph run uses more supersteps than the
\* limit, and none is cut off short of END by the limit.
C1_TurnReachesDone ==
    \A t \in Sessions : step[t] <= RecursionLimit /\ exc[t] # "recursion"

\* C2: a turn that dispatched no create/update/delete (only list/filter, or
\* no tool at all) sends no task_update frame to any session.
C2_ReadOnlyNeverBroadcasts ==
    \A t \in Sessions : ~turn[t].mutating => FramesOf(t, "task_update") = {}

\* C3: a finished turn in which a create, update or delete succeeded has
\* run the broadcast, and a task_update frame went to every session that
\* was registered when the broadcast began.
C3_MutationAlwaysBroadcast ==
    \A t \in Sessions :
        (pc[t] = "done" /\ turn[t].mutated) =>
            /\ bc[t].started
            /\ bc[t].start \subseteq Recipients(t, "task_update")

\* C4: a finished turn whose update/delete hit a missing id (and changed
\* nothing) sent no task_update frame, and sent the caller its
\* agent_response.
C4_NotFoundNoBroadcast ==
    \A t \in Sessions :
        (pc[t] = "done" /\ exc[t] = "none" /\ turn[t].notfound /\ ~turn[t].mutated) =>
            /\ FramesOf(t, "task_update") = {}
            /\ Recipients(t, "agent_response") = {t}

\* C5: once the model call has failed the turn makes no further model call
\* and sends no agent_response; it hands exactly one frame to send_text, an
\* error frame for the caller, and when that frame is delivered the handler
\* is back at receive_text for the next message.
C5_ModelFailureAbortsTurn ==
    \A t \in Sessions :
        exc[t] = "model" =>
            /\ pc[t] \in {"except", "sending", "done"}
            /\ pc[t] = "except" => sent[t] = << >>
            /\ pc[t] \in {"sending", "done"} =>
                  /\ Len(sent[t]) = 1
                  /\ sent[t][1].type = "error"
                  /\ sent[t][1].to = t
            /\ pc[t] = "sending" => sent[t][1].ok
            /\ pc[t] = "done" => (sent[t][1].ok => after[t] = "receive")

\* C5 happens: a model failure reported to its caller while another session
\* is connected.
C5_Witness ==
    \E t \in Sessions :
        /\ pc[t] = "done" /\ exc[t] = "model"
        /\ sent[t][1].ok
        /\ active_connections \ {t} # {}

\* C6, the step: a tool node that ends, whether or not a dispatch failed
\* (missing id, rejected argument, row gone at commit), the run not being
\* out of supersteps, hands control back to the agent node with one tool
\* message per call appended (failure text included), sends nothing and
\* raises nothing.
C6_Step ==
    \A t \in Sessions :
        (pc[t] = "tools" /\ pc'[t] # "tools" /\ ~OutOfSteps(step'[t])) =>
            LET calls == messages[t][Len(messages[t])][3]
                n == Len(messages[t])
            IN /\ pc'[t] = "agent"
               /\ Len(messages'[t]) = n + Len(calls)
               /\ \A k \in 1..n : messages'[t][k] = messages[t][k]
               /\ \A i \in 1..Len(calls) :
                     /\ messages'[t][n + i][1] = "tool"
                     /\ messages'[t][n + i][2] = calls[i]
               /\ sent'[t] = sent[t]
               /\ exc'[t] = "none"

\* C6, the outcome: no exception of a turn comes from a tool, and a turn
\* with a failed dispatch whose graph run ended normally answers with an
\* agent_response and no error frame.
C6_Outcome ==
    \A t \in Sessions :
        /\ exc[t] \in {"none", "model", "recursion", "send", "setchanged"}
        /\ (pc[t] = "done" /\ exc[t] = "none" /\ turn[t].failed) =>
              /\ Recipients(t, "agent_response") = {t}
              /\ FramesOf(t, "error") = {}

\* C6: a failed tool dispatch does not abort the turn and produces no error
\* frame: its text is appended as the tool message, the agent node runs
\* next, and the turn ends with an agent_response.
C6_ToolFailureFeedsBack == [](C6_Outcome) /\ [][C6_Step]_vars

\* C6 happens: the agent node is about to run on a message list that ends
\* with a failed dispatch's tool message.
C6_Witness ==
    \E t \in Sessions :
        /\ pc[t] = "agent"
        /\ Len(messages[t]) >= 3
        /\ messages[t][Len(messages[t])][1] = "tool"
        /\ messages[t][Len(messages[t])][3][1] \in Failures

\* C7: a turn cut off at the step limit ends like any other: the caller
\* gets an agent_response (the truncation notice), no error frame, and the
\* handler stays in its receive loop.
C7_TruncationIsAgentResponse ==
    \A t \in Sessions :
        (pc[t] = "done" /\ exc[t] = "recursion") =>
            /\ Recipients(t, "agent_response") = {t}
            /\ FramesOf(t, "error") = {}
            /\ after[t] = "receive"

\* C8: a turn whose graph run reached END hands exactly one agent_response
\* frame to send_text, addressed to the caller; a turn that did not reach
\* END hands none; no agent_response ever goes to another session.
C8_OneAgentResponse ==
    \A t \in Sessions :
        LET R == FramesOf(t, "agent_response")
        IN /\ \A i \in R : sent[t][i].to = t
           /\ (ReachedEnd(t) /\ pc[t] # "respond") => Cardinality(R) = 1
           /\ ~(ReachedEnd(t) /\ pc[t] # "respond") => R = {}

\* C8 happens: a finished turn that changed the tasks table, with another
\* session connected, and one that changed nothing.
C8_Witness ==
    \E t \in Sessions :
        /\ pc[t] = "done" /\ exc[t] = "none"
        /\ turn[t].mutated
        /\ active_connections \ {t} # {}
        /\ Cardinality(FramesOf(t, "agent_response")) = 1

\* C9: a broadcast never raises, whichever sends fail; when it is over,
\* every session it started with that is still registered was sent the
\* payload and got it, and no session whose send failed is still registered.
C9_BroadcastIsolatesFailures ==
    \A t \in Sessions :
        /\ exc[t] # "setchanged"
        /\ (pc[t] = "done" /\ bc[t].started) =>
              /\ \A c \in bc[t].start \cap active_connections :
                    \E i \in FramesOf(t, "task_update") :
                        sent[t][i].to = c /\ sent[t][i].ok
              /\ bc[t].disconnected \cap active_connections = {}

\* C10: a unicast (agent_response or error) that fails to deliver raises
\* nothing into the turn and leaves the session unregistered; the handler
\* goes on to its next receive.
C10_SendFailureSwallowed ==
    \A t \in Sessions :
        /\ exc[t] # "send"
        /\ (pc[t] = "done" /\ (\E i \in 1..Len(sent[t]) :
                sent[t][i].type # "task_update" /\ ~sent[t][i].ok)) =>
              /\ t \notin active_connections
              /\ after[t] = "receive"

\* The sessions session t's broadcast has sent the payload to with the
\* send going through.
Reached(t) ==
    {sent[t][i].to : i \in {i \in FramesOf(t, "task_update") : sent[t][i].ok}}

\* C11: unregister is idempotent and does not stand in the way of later
\* broadcasts. A handler's disconnect raises nothing and takes just that
\* session out of the set, which for a session that is not in it (removed
\* before by a broadcast's cleanup) leaves the set as it was; and a
\* broadcast that began without a session that has unregistered has, when
\* it is over, reached every session that was registered at its start and
\* still is.
C11_Step ==
    /\ \A u \in DOMAIN pc :
          (pc[u] = "receive" /\ ~alive[u] /\ pc'[u] # pc[u]) =>
              /\ pc'[u] = "closed"
              /\ exc' = exc
              /\ active_connections' = active_connections \ {u}
              /\ u \notin active_connections =>
                    active_connections' = active_connections
    /\ \A t \in DOMAIN pc :
          (/\ pc[t] = "broadcast"
           /\ pc'[t] = "done"
           /\ exc'[t] = "none"
           /\ \E u \in DOMAIN pc : pc[u] = "closed" /\ u \notin bc'[t].start) =>
              (bc'[t].start \cap active_connections') \subseteq Reached(t)

C11_UnregisterKeepsBroadcast == [][C11_Step]_vars

\* Session 3 has unregistered; a broadcast begun afterwards with sessions 1
\* and 2 registered is over and has reached both.
C11_Witness ==
    /\ pc[1] = "done"
    /\ exc[1] = "none"
    /\ bc[1].started
    /\ pc[3] = "closed"
    /\ bc[1].start = {1, 2}
    /\ active_connections = {1, 2}
    /\ Reached(1) = {1, 2}

\* C12: a connect or disconnect between two sends of a running broadcast
\* neither makes the broadcast fail nor makes it skip a session that was
\* registered from its start to its end.
C12_RegistryChangeDuringBroadcast ==
    \A t \in Sessions :
        bc[t].started =>
            /\ exc[t] # "setchanged"
            /\ pc[t] \in {"except", "sending", "done"} =>
                  (bc[t].start \cap active_connections)
                      \subseteq Recipients(t, "task_update")

\* C14: a turn whose client went away while it ran (its reply could not be
\* delivered) and that changed the tasks table has, when it is over, run the
\* broadcast and sent a task_update to every other registered session.
C14_DisconnectMidTurn ==
    \A t \in Sessions :
        (/\ pc[t] = "done"
         /\ turn[t].mutated
         /\ \E i \in FramesOf(t, "agent_response") : ~sent[t][i].ok) =>
            /\ bc[t].started
            /\ (active_connections \ {t}) \subseteq Recipients(t, "task_update")

\* The full task list, latest created first, as a snapshot would carry it.
Snapshot == Lines(database, DOMAIN tasks, TRUE)

\* C20: every task_update frame carries, under "tasks", the full task list
\* as the table holds it after the turn's tool calls, latest created first.
C20_TaskUpdateCarriesTasks ==
    \A t \in Sessions :
        \A i \in FramesOf(t, "task_update") :
            /\ "tasks" \in DOMAIN sent[t][i].body
            /\ sent[t][i].body.tasks = Snapshot

\* A session's handler is inside a turn.
InFlight(t) ==
    pc[t] \in {"agent", "tools", "respond", "broadcast", "except", "sending", "done"}

\* The number of the frame a session's handler took last.
Taken(t) == inbox[t].n - Len(inbox[t].q)

\* C13, the step: a turn starts only in a handler that is waiting in
\* receive_text (its previous turn is over), for the oldest frame not yet
\* taken, the later frames staying queued in arrival order; a frame that
\* arrives while the session's turn runs changes nothing of that turn.
C13_Step ==
    \A t \in Sessions :
        /\ (messages[t] = << >> /\ messages'[t] # << >>) =>
              /\ pc[t] = "receive"
              /\ messages'[t] = <<<<"human", Taken(t) + 1, << >> >>>>
              /\ inbox'[t].q = [k \in 1..(Len(inbox[t].q) - 1) |-> Taken(t) + 1 + k]
        /\ (InFlight(t) /\ inbox'[t] # inbox[t]) =>
              /\ pc'[t] = pc[t]
              /\ messages'[t] = messages[t]
              /\ step'[t] = step[t]
              /\ sent'[t] = sent[t]

\* C13, the state: the queue holds the frames not yet taken in arrival
\* order, and a running graph works on exactly one human message, the
\* frame taken last.
C13_Queue ==
    \A t \in Sessions :
        /\ inbox[t].q = [k \in 1..Len(inbox[t].q) |-> Taken(t) + k]
        /\ pc[t] \in {"agent", "tools"} =>
              /\ messages[t][1] = <<"human", Taken(t), << >> >>
              /\ \A i \in 2..Len(messages[t]) : messages[t][i][1] # "human"

\* C13: a session has at most one turn in flight; frames that arrive during
\* a turn wait and are processed one at a time in arrival order.
C13_OneTurnPerSession == [](C13_Queue) /\ [][C13_Step]_vars

\* C13 happens: a session's second frame waits while its first turn is in
\* the tool node, and another session's turn is running too.
C13_Witness ==
    \E t, u \in Sessions :
        /\ t # u
        /\ pc[t] = "tools" /\ inbox[t].q = <<2>>
        /\ pc[u] \in {"agent", "tools"}

\* The first words a tool can return.
OutKinds(name) ==
    CASE name = "create_task" -> {"created successfully", "Error creating task"}
      [] name = "update_task" -> {"updated successfully", "not found", "Error updating task"}
      [] name = "delete_task" -> {"deleted successfully", "not found"}
      [] name = "list_tasks" -> {"Tasks:", "No tasks found", "Error listing tasks"}
      [] name = "filter_tasks" -> {"Filtered tasks:", "No tasks found with specified filters",
                                  "Error filtering tasks"}

\* C15: in the message list of a running graph every model response with
\* tool calls is followed, once the tool node has run, by one tool message
\* per call, in the order the model issued the calls, each carrying its own
\* call and that call's result; the agent node runs again only on a list
\* in which all of them are appended.
C15_ToolResultsInOrder ==
    \A t \in Sessions :
        \A i \in 1..Len(messages[t]) :
            LET cs == messages[t][i][3]
            IN (messages[t][i][1] = "ai" /\ cs # << >>) =>
                  IF i = Len(messages[t]) THEN pc[t] = "tools"
                  ELSE /\ Len(messages[t]) >= i + Len(cs)
                       /\ Len(messages[t]) = i + Len(cs) => pc[t] = "agent"
                       /\ Len(messages[t]) > i + Len(cs) =>
                             messages[t][i + Len(cs) + 1][1] = "ai"
                       /\ \A k \in 1..Len(cs) :
                             /\ messages[t][i + k][1] = "tool"
                             /\ messages[t][i + k][2] = cs[k]
                             /\ messages[t][i + k][3][1] \in OutKinds(cs[k].name)

\* C15 happens: the model asked for delete_task(1) and then create_task in
\* one response on an empty table, the insert committed first, and the
\* agent node is about to run on the two results in the order of the calls.
C15_Witness ==
    \E t \in Sessions :
        /\ pc[t] = "agent"
        /\ Len(messages[t]) = 4
        /\ messages[t][2][3][1].name = "delete_task"
        /\ messages[t][2][3][2].name = "create_task"
        /\ messages[t][3][3] = <<"deleted successfully", 1>>
        /\ messages[t][4][3] = <<"created successfully", 1>>

\* The tool call a step of the tool runs made, and what it returned.
LastCall == messages'[1][1][2]

LastOut == messages'[1][1][3]

\* A step of the tool runs has moved the clock (a call reached the
\* database) or left a tool message (a call returned).
Stepped == now' # now \/ messages' # messages

\* A call has gone in flight in this step: it began and has an await still
\* to come.
Suspended == Len(running'[1]) > Len(running[1])

\* A call has returned in this step: one that was in flight, or one that
\* began in this step and had no further await.
Returned ==
    \/ Len(running'[1]) < Len(running[1])
    \/ running' = running /\ Stepped

\* The call that began in this step.
Begun == IF Suspended THEN running'[1][Len(running'[1])].call ELSE LastCall

\* A step of the tool runs in which a call of the named tool began.
Began(name) == (Suspended \/ (running' = running /\ Stepped)) /\ Begun.name = name

\* A step of the tool runs in which a call of the named tool returned.
Called(name) == Returned /\ LastCall.name = name

\* The enum value an argument string stands for, whatever its casing.
Canon(v) ==
    CASE v \in {"low", "Low", "LOW"} -> "low"
      [] v \in {"medium", "Medium", "MEDIUM"} -> "medium"
      [] v \in {"high", "High", "HIGH"} -> "high"
      [] v \in {"todo", "Todo", "TODO"} -> "todo"
      [] v \in {"completed", "Completed", "COMPLETED"} -> "completed"
      [] OTHER -> "unrecognized"

\* C16, the step: a create_task call with a non-empty title (and a due date
\* that is absent or ISO) adds, in the step in which it begins, exactly one
\* row and changes no other; the new row's status is todo and its priority
\* is the argument's value when that is low, medium or high in any casing,
\* and medium otherwise.
C16_Step ==
    (/\ Began("create_task")
     /\ Begun.args.title # ""
     /\ Begun.args.due_date \in {None} \cup IsoDates) =>
        \E id \in DOMAIN tasks' \ DOMAIN tasks :
            /\ DOMAIN tasks' = DOMAIN tasks \cup {id}
            /\ \A i \in DOMAIN tasks : tasks'[i] = tasks[i]
            /\ tasks'[id].status = "todo"
            /\ tasks'[id].priority =
                  IF Canon(Begun.args.priority) \in TaskPriority
                      THEN Canon(Begun.args.priority) ELSE "medium"

\* C16: every create with a non-empty title inserts one task with status
\* todo and the given priority, medium when it is omitted or not recognized.
C16_CreateDefaults == [][C16_Step]_vars

\* The value an update argument asks for: the enum value for status and
\* priority, the string itself for title and description.
Asked(field, v) == IF field \in {"status", "priority"} THEN Canon(v) ELSE v

\* C17, the step: an update_task that returns success with its row in the
\* table has set, at its commit, every field whose argument is present to
\* the value asked for and leaves every other field, and every other row,
\* as it was; updated_at stays when no field's value changed and changes
\* when one did.
C17_Step ==
    (/\ Called("update_task")
     /\ LastOut[1] = "updated successfully"
     /\ LastCall.args.task_id \in DOMAIN tasks) =>
        LET a == LastCall.args
            old == tasks[a.task_id]
            new == tasks'[a.task_id]
            Fields == {"title", "description", "status", "priority"}
        IN /\ DOMAIN tasks' = DOMAIN tasks
           /\ \A i \in DOMAIN tasks \ {a.task_id} : tasks'[i] = tasks[i]
           /\ \A f \in Fields :
                 new[f] = IF a[f] # None THEN Asked(f, a[f]) ELSE old[f]
           /\ \A f \in {"id", "due_date", "created_at"} : new[f] = old[f]
           /\ (\A f \in Fields : new[f] = old[f]) => new.updated_at = old.updated_at
           /\ (\E f \in Fields : new[f] # old[f]) => new.updated_at # old.updated_at

\* C17: update changes exactly the fields present in its arguments; with
\* none present the task, updated_at included, is unchanged, and updated_at
\* changes whenever a field is really changed.
C17_UpdateExactlyPresent == [][C17_Step]_vars

\* C18, the step: no step of a tool call changes the id of a row that
\* stays, and a row that appears gets an id the sequence had not handed out
\* before.
C18_Step ==
    /\ \A i \in DOMAIN tasks \cap DOMAIN tasks' : tasks'[i].id = tasks[i].id
    /\ \A i \in DOMAIN tasks' \ DOMAIN tasks : i >= nextId /\ i < nextId'
    /\ nextId' >= nextId

\* C18, the state: every row is stored under its own id, and every id in
\* the table was handed out by the sequence.
C18_Ids ==
    \A i \in DOMAIN tasks : tasks[i].id = i /\ i < nextId

\* C18: after any sequence of create, update and delete the ids in the
\* table are pairwise distinct, no task's id ever changes, and a create
\* never hands out an id that a deleted task held.
C18_IdsUniqueNeverReused == [](C18_Ids) /\ [][C18_Step]_vars

\* C18 happens: a create has just returned id 2 after the task with id 1
\* had been deleted.
C18_Witness ==
    /\ messages[1] # << >>
    /\ messages[1][1][2].name = "create_task"
    /\ messages[1][1][3] = <<"created successfully", 2>>
    /\ DOMAIN tasks = {2}

\* The rows a listing with the given (recognized or absent) filters is to
\* show.
Matching(priority, status) ==
    {i \in DOMAIN tasks :
        /\ priority \in {None, ""} \/ tasks[i].priority = Canon(priority)
        /\ status \in {None, ""} \/ tasks[i].status = Canon(status)}

\* C19, the step: list_tasks and filter_tasks leave the table as it is,
\* and with filters that are absent or recognized they return one line per
\* row that satisfies every given filter, no other line, latest created
\* first.
C19_Step ==
    (Called("list_tasks") \/ Called("filter_tasks")) =>
        LET a == LastCall.args
            priority == IF Called("filter_tasks") THEN a.priority ELSE None
            want == Matching(priority, a.status)
            shown == IF Len(LastOut) = 2 THEN LastOut[2] ELSE << >>
        IN /\ tasks' = tasks
           /\ nextId' = nextId
           /\ (/\ priority \in {None, ""} \/ Canon(priority) \in TaskPriority
               /\ a.status \in {None, ""} \/ Canon(a.status) \in TaskStatus) =>
                 /\ LastOut[1] \in {"Tasks:", "No tasks found", "Filtered tasks:",
                                    "No tasks found with specified filters"}
                 /\ {shown[k].id : k \in 1..Len(shown)} = want
                 /\ Len(shown) = Cardinality(want)
                 /\ \A k \in 1..Len(shown) :
                       /\ shown[k].title = tasks[shown[k].id].title
                       /\ shown[k].status = tasks[shown[k].id].status
                       /\ shown[k].priority = tasks[shown[k].id].priority
                 /\ \A k, l \in 1..Len(shown) :
                       k < l => tasks[shown[k].id].created_at
                                    >= tasks[shown[l].id].created_at

\* C19: list and filter return exactly the tasks that satisfy every given
\* predicate (all tasks when none is given), ordered by created_at
\* descending, and do not change the store.
C19_ListFilterExact == [][C19_Step]_vars

\* C19 happens: with two tasks in the table, a filter by status has just
\* returned one of them, and a listing both, created at different instants.
C19_Witness ==
    /\ messages[1] # << >>
    /\ Cardinality(DOMAIN tasks) = 2
    /\ \/ /\ messages[1][1][2].name = "filter_tasks"
          /\ messages[1][1][2].args.status = "COMPLETED"
          /\ messages[1][1][3][1] = "Filtered tasks:"
          /\ Len(messages[1][1][3][2]) = 1
       \/ /\ messages[1][1][2].name = "list_tasks"
          /\ messages[1][1][3][1] = "Tasks:"
          /\ Len(messages[1][1][3][2]) = 2

\* The call that returned was refused for its arguments: an unrecognized
\* enum value, an unreadable date, or the id of a row that is not there
\* (and not for what another call did to its row while it was in flight).
Refused ==
    \/ LastOut[1] = "not found"
    \/ /\ LastOut[1] \in Failures \ {"not found"}
       /\ LastOut[2] \notin {"Could not refresh instance", "0 were matched"}

\* C23: a tool call that returns a validation or not-found error leaves the
\* store exactly as it was, also when the argument that fails comes after
\* fields that were valid (an update with a valid title and an unrecognized
\* status): the step in which a call returns an error writes nothing, a
\* call refused for its arguments returns in the step in which it began
\* (no other call's write lies between), and the select of an update_task
\* or delete_task writes nothing.
C23_Step ==
    /\ (Returned /\ LastOut[1] \in Failures) => (tasks' = tasks /\ nextId' = nextId)
    /\ (Returned /\ Refused) => running' = running
    /\ (Suspended /\ Begun.name \in {"update_task", "delete_task"})
          => (tasks' = tasks /\ nextId' = nextId)

C23_FailedDispatchLeavesStore == [][C23_Step]_vars

\* An update of task 1 with a new title and an unrecognized status was
\* refused, and task 1 still has the title it was created with.
C23_Witness ==
    /\ messages[1] # << >>
    /\ messages[1][1][2].name = "update_task"
    /\ messages[1][1][2].args.task_id = 1
    /\ messages[1][1][2].args.title = "b"
    /\ messages[1][1][2].args.status = "bogus"
    /\ messages[1][1][3][1] = "Error updating task"
    /\ 1 \in DOMAIN tasks
    /\ tasks[1].title # "b"

\* The frames that carry a tasks array.
Snapshots(types) == {data \in WireFrames : data.type \in types /\ "tasks" \in DOMAIN data}

\* The page of browser b has just been handed frame data.
Handed(b, data) ==
    /\ client'[b].recv # client[b].recv
    /\ client'[b] = deliver(client[b], data)

\* C22: once a page has received a task_update or an initial_tasks frame,
\* its task list is the tasks array of that frame.
C22_Step ==
    \A b \in Browsers : \A data \in Snapshots({"task_update", "initial_tasks"}) :
        Handed(b, data) => client'[b].tasks = [defined |-> TRUE, list |-> data.tasks]

C22_ClientTakesSnapshot == [][C22_Step]_vars

\* The messages of the user entries of a chat log, in order.
UserShown(cl) ==
    LET us == SelectSeq(cl.messages, LAMBDA m : m.type = "user")
    IN [i \in 1..Len(us) |-> us[i].message]

\* The messages handed to ws.send, in order.
UserSent(cl) == [i \in 1..Len(cl.out) |-> cl.out[i].message]

\* C25: every user message handleMessageSent put in the chat log was also
\* sent, exactly once; no message is shown that was dropped because the
\* socket was missing or not OPEN.
C25_ShownIsSent == \A b \in Browsers : UserShown(client[b]) = UserSent(client[b])

\* The page of browser b has just run handleTaskUpdate on its i-th task.
Edited(b, i) ==
    /\ client'[b].recv = client[b].recv
    /\ client[b].tasks.defined
    /\ i \in 1..Len(client[b].tasks.list)
    /\ client'[b].tasks # client[b].tasks
    /\ \A j \in 1..Len(client[b].tasks.list) :
        j # i => client'[b].tasks.list[j] = client[b].tasks.list[j]

\* C26: handleTaskUpdate changes the page's copy of that one task and
\* nothing else (the other tasks, the chat log and what was sent stay), and
\* when the page's list holds such an edit, the next task_update snapshot
\* handed to the page replaces the list, the edit included.
C26_Step ==
    \A b \in Browsers :
        /\ (client'[b].recv = client[b].recv /\ client'[b].tasks # client[b].tasks)
              => /\ \E i \in 1..Len(client[b].tasks.list) : Edited(b, i)
                 /\ Len(client'[b].tasks.list) = Len(client[b].tasks.list)
                 /\ client'[b].messages = client[b].messages
                 /\ client'[b].out = client[b].out
        /\ \A data \in Snapshots({"task_update"}) :
              (client[b].edited /\ Handed(b, data))
                  => client'[b].tasks = [defined |-> TRUE, list |-> data.tasks]

C26_LocalEditUntilSnapshot == [][C26_Step]_vars

\* The user edited a task of the page, and the task_update snapshot
\* received next has replaced the edited list: the page shows the
\* snapshot's tasks.
C26_Witness ==
    /\ client[1].replaced
    /\ ~client[1].edited
    /\ client[1].last # << >>
    /\ "tasks" \in DOMAIN client[1].last[1]
    /\ client[1].last[1].tasks # << >>
    /\ client[1].tasks = [defined |-> TRUE, list |-> client[1].last[1].tasks]

\* C27: a task whose status is one of the wire values (todo, in_progress,
\* completed, archived) is shown in exactly one column of TaskList,
\* whatever its due date.
C27_ExactlyOneColumn ==
    \A b \in Browsers : \A i \in 1..Len(client[b].tasks.list) :
        client[b].tasks.list[i].status \in WireStatus
            => Cardinality(ColumnsOf(client[b].tasks.list[i])) = 1

\* C21: a session gets exactly one initial_tasks frame, and it is the
\* first frame after the connection is accepted: nothing is handed to the
\* page before it, and once the connection is accepted, the page open and
\* no frame waiting in its socket, the page has it.
C21_InitialTasksFirst ==
    \A c \in Sessions :
        /\ client[c].first \in {"none", "initial_tasks"}
        /\ client[c].initials <= 1
        /\ (pc[c] # "idle" /\ client[c].readyState = "OPEN" /\ client[c].down = << >>)
              => client[c].initials = 1

\* No turn is running or about to start.
Quiet ==
    \A t \in Sessions :
        /\ pc[t] \in {"idle", "receive", "closed", "crashed"}
        /\ inbox[t].q = << >>
        /\ client[t].down = << >>

\* C24: when the interleaved turns have all completed, the last task_update
\* snapshot a still-registered session was sent is the store as it finally
\* is.
C24_LastSnapshotIsStore ==
    Quiet =>
        \A c \in active_connections :
            client[c].last # << >>
                => /\ "tasks" \in DOMAIN client[c].last[1]
                   /\ client[c].last[1].tasks = Snapshot

====
